---------------------------- MODULE Spec2Model ----------------------------
(***************************************************************************)
(* Model of the agentic-coding-orchestrator: the persisted STATE.json of   *)
(* one project, the rules table, the dispatch state machine, the handoff   *)
(* application, the review gate, the start commands (specification Spec),  *)
(* and the completion hook notify-agi.sh with its two dedup guards         *)
(* (specification HookSpec).  Further specifications restrict or extend    *)
(* Spec: PeekSpec (peek), ReportSpec (reports of a run), CheckSpec (the    *)
(* verification command), ParseSpec (HANDOFF.md documents), LiveSpec (the  *)
(* success path under fairness) and RaceSpec (calls interleaved between    *)
(* their read and their write of STATE.json).                              *)
(***************************************************************************)
EXTENDS Integers, Sequences, FiniteSets, TLC

VARIABLES
    state,       \* the parsed content of .ai/STATE.json (interface State)
    now,         \* the wall clock read by Date.now(), in minutes
    result,      \* what the most recent call returned
    run_active,  \* an executor session spawned for a dispatch has not yet been
                 \* reported (apply-handoff) nor declared timed out
    held,        \* the document a call has read with readState() and not yet
                 \* written back: <<>> or <<[op, doc, at]>>
    hooks,       \* notify-agi.sh invocations: program counter and locals
    hook_lock,   \* mtime of /tmp/orchestrator-hook-locks/.hook-lock (seconds)
    session_locks, \* mtime of each .session-<id>.lock file
    clock_s,     \* the wall clock of the hook host, in seconds
    applied,     \* how many times apply-handoff ran for each session
    notified     \* how many notifications were delivered for each session

vars == <<state, now, result, run_active, held,
          hooks, hook_lock, session_locks, clock_s, applied, notified>>

orchVars == <<state, now, result, run_active, held>>
hookVars == <<hooks, hook_lock, session_locks, clock_s, applied, notified>>

-----------------------------------------------------------------------------
(* Bounds of the model *)

\* the clock stops advancing at MaxClock minutes
MaxClock == 15
\* the minutes between two looks at the clock
TickMinutes == 5

-----------------------------------------------------------------------------
(* state.ts: types and validation *)

\* JSON null of a string-valued field
Null == "null"
\* JSON null of a timestamp field (dispatched_at, completed_at)
NoTime == -1
\* JSON null of the tests field
NoTests == <<>>

VALID_STEPS ==
    {"bootstrap", "bdd", "sdd-delta", "contract", "review", "scaffold",
     "impl", "verify", "update-memory", "custom", "done"}

VALID_STATUSES ==
    {"pending", "running", "pass", "failing", "needs_human", "timeout"}

VALID_REASONS ==
    {"constitution_violation", "needs_clarification", "nfr_missing",
     "scope_warning", "test_timeout"}

createInitialState(project) ==
    [ project       |-> project,
      story         |-> Null,
      step          |-> "bootstrap",
      attempt       |-> 1,
      max_attempts  |-> 1,
      status        |-> "pending",
      reason        |-> Null,
      dispatched_at |-> NoTime,
      completed_at  |-> NoTime,
      timeout_min   |-> 5,
      tests         |-> NoTests,
      failing_tests |-> <<>>,
      lint_pass     |-> Null,
      files_changed |-> <<>>,
      blocked_by    |-> <<>>,
      human_note    |-> Null,
      task_type     |-> "story",
      agent_teams   |-> FALSE ]

\* validate(): TRUE when it returns, FALSE when it throws
validate(s) ==
    /\ s.project # ""
    /\ s.step \in VALID_STEPS
    /\ s.status \in VALID_STATUSES
    /\ (s.reason = Null \/ s.reason \in VALID_REASONS)
    /\ ~(s.attempt < 0)
    /\ ~(s.max_attempts < 1)

\* isTimedOut with the budget read as hours
isTimedOut_hours(s, t) ==
    IF s.status # "running" \/ s.dispatched_at = NoTime
    THEN FALSE
    ELSE (t - s.dispatched_at) > s.timeout_min * 60

\* isTimedOut with the budget itself counted as exceeded
isTimedOut_inclusive(s, t) ==
    IF s.status # "running" \/ s.dispatched_at = NoTime
    THEN FALSE
    ELSE (t - s.dispatched_at) >= s.timeout_min

isTimedOut(s, t) ==
    IF s.status # "running" \/ s.dispatched_at = NoTime
    THEN FALSE
    ELSE (t - s.dispatched_at) > s.timeout_min

\* isMaxedOut that allows one attempt past the ceiling
isMaxedOut_late(s) == s.attempt > s.max_attempts

isMaxedOut(s) == s.attempt >= s.max_attempts

markRunning(s, t) ==
    [s EXCEPT !.status = "running",
              !.dispatched_at = t,
              !.completed_at = NoTime,
              !.reason = Null]

-----------------------------------------------------------------------------
(* rules.ts: the step rules table *)

\* post_check: null
NoCheck == "null"

STEP_RULES ==
    [ bdd |->
        [ next_on_pass |-> "sdd-delta", on_fail |-> [default |-> "bdd"],
          max_attempts |-> 3, timeout_min |-> 5, requires_human |-> FALSE,
          post_check |-> NoCheck ],
      sdd_delta |->
        [ next_on_pass |-> "contract", on_fail |-> [default |-> "sdd-delta"],
          max_attempts |-> 3, timeout_min |-> 5, requires_human |-> FALSE,
          post_check |-> NoCheck ],
      contract |->
        [ next_on_pass |-> "review", on_fail |-> [default |-> "contract"],
          max_attempts |-> 2, timeout_min |-> 5, requires_human |-> FALSE,
          post_check |-> NoCheck ],
      review |->
        [ next_on_pass |-> "scaffold",
          on_fail |-> [ default |-> "bdd",
                        needs_clarification |-> "bdd",
                        constitution_violation |-> "sdd-delta",
                        scope_warning |-> "sdd-delta" ],
          max_attempts |-> 1, timeout_min |-> 0, requires_human |-> TRUE,
          post_check |-> NoCheck ],
      scaffold |->
        [ next_on_pass |-> "impl", on_fail |-> [default |-> "scaffold"],
          max_attempts |-> 2, timeout_min |-> 5, requires_human |-> FALSE,
          post_check |-> NoCheck ],
      impl |->
        [ next_on_pass |-> "verify",
          on_fail |-> [ default |-> "impl",
                        constitution_violation |-> "sdd-delta",
                        needs_clarification |-> "review",
                        scope_warning |-> "review" ],
          max_attempts |-> 5, timeout_min |-> 10, requires_human |-> FALSE,
          post_check |-> NoCheck ],
      verify |->
        [ next_on_pass |-> "update-memory", on_fail |-> [default |-> "impl"],
          max_attempts |-> 2, timeout_min |-> 5, requires_human |-> FALSE,
          post_check |-> NoCheck ],
      update_memory |->
        [ next_on_pass |-> "done", on_fail |-> [default |-> "update-memory"],
          max_attempts |-> 2, timeout_min |-> 3, requires_human |-> FALSE,
          post_check |-> NoCheck ],
      custom |->
        [ next_on_pass |-> "update-memory", on_fail |-> [default |-> "custom"],
          max_attempts |-> 3, timeout_min |-> 15, requires_human |-> FALSE,
          post_check |-> NoCheck ] ]

BOOTSTRAP_RULE ==
    [ next_on_pass |-> "bdd", on_fail |-> [default |-> "bootstrap"],
      max_attempts |-> 1, timeout_min |-> 10, requires_human |-> FALSE,
      post_check |-> NoCheck ]

\* the key of STEP_RULES for a step name ("sdd-delta", "update-memory")
RuleKey(step) ==
    CASE step = "sdd-delta" -> "sdd_delta"
      [] step = "update-memory" -> "update_memory"
      [] OTHER -> step

\* getRule over a table in which a passed verify goes back to impl
getRule_loop(step) ==
    IF step = "bootstrap" THEN BOOTSTRAP_RULE
    ELSE IF step = "verify"
    THEN [STEP_RULES.verify EXCEPT !.next_on_pass = "impl"]
    ELSE STEP_RULES[RuleKey(step)]

\* getRule(): defined for every step but "done", for which it throws
getRule(step) ==
    IF step = "bootstrap" THEN BOOTSTRAP_RULE ELSE STEP_RULES[RuleKey(step)]

\* getStepSequence(): the ordered steps of the micro-waterfall loop
getStepSequence ==
    <<"bdd", "sdd-delta", "contract", "review", "scaffold", "impl", "verify",
      "update-memory">>

\* the steps met by following next_on_pass from step, done included, in at
\* most fuel moves
RECURSIVE passChain(_, _, _)
passChain(step, seen, fuel) ==
    IF step = "done" \/ fuel = 0
    THEN Append(seen, step)
    ELSE passChain(getRule(step).next_on_pass, Append(seen, step), fuel - 1)

\* whether a sequence names no step twice
noRepeat(seq) ==
    \A i, j \in 1..Len(seq) : seq[i] = seq[j] => i = j

\* getFailTarget that looks every reason up in the review rule's table
getFailTarget_reviewTable(step, reason) ==
    LET rule == IF reason # Null THEN getRule("review") ELSE getRule(step)
    IN  IF reason # Null /\ reason \in DOMAIN rule.on_fail
        THEN rule.on_fail[reason]
        ELSE rule.on_fail.default

getFailTarget(step, reason) ==
    LET rule == getRule(step)
    IN  IF reason # Null /\ reason \in DOMAIN rule.on_fail
        THEN rule.on_fail[reason]
        ELSE rule.on_fail.default


-----------------------------------------------------------------------------
(* dispatch.ts: the dispatch state machine *)

\* a DispatchResult: its type tag, and the step and attempt it carries
\* (attempt 0 where the result has no attempt field)
Outcome(type, step, attempt) ==
    [type |-> type, step |-> step, attempt |-> attempt]

\* what the last command left on its caller's side: the result it returned and
\* the status it read from STATE.json on entry
Seen(out, status) ==
    [type |-> out.type, step |-> out.step, attempt |-> out.attempt,
     was |-> status]

\* the advance that carries the human's note over to the new step
advanceOnPass_keepNote(s) ==
    [s EXCEPT !.step = getRule(s.step).next_on_pass,
              !.attempt = 1,
              !.status = "pending",
              !.reason = Null,
              !.tests = NoTests,
              !.failing_tests = <<>>,
              !.lint_pass = Null,
              !.files_changed = <<>>]

\* status == "pass": the fields reset before the look at the new step
advanceOnPass(s) ==
    [s EXCEPT !.step = getRule(s.step).next_on_pass,
              !.attempt = 1,
              !.status = "pending",
              !.reason = Null,
              !.human_note = Null,
              !.tests = NoTests,
              !.failing_tests = <<>>,
              !.lint_pass = Null,
              !.files_changed = <<>>]

\* the limits of a step's rule copied into the state
adoptLimits(s, step) ==
    [s EXCEPT !.max_attempts = getRule(step).max_attempts,
              !.timeout_min = getRule(step).timeout_min]

\* the routing that retries in place without counting the attempt
routeFailure_uncounted(s) ==
    LET target == getFailTarget(s.step, s.reason)
        moved  == IF target # s.step
                  THEN adoptLimits([s EXCEPT !.step = target, !.attempt = 1],
                                   target)
                  ELSE s
    IN  [moved EXCEPT !.status = "pending"]

\* status == "failing" below the ceiling: reroute or retry in place
routeFailure(s) ==
    LET target == getFailTarget(s.step, s.reason)
        moved  == IF target # s.step
                  THEN adoptLimits([s EXCEPT !.step = target, !.attempt = 1],
                                   target)
                  ELSE [s EXCEPT !.attempt = s.attempt + 1]
    IN  [moved EXCEPT !.status = "pending"]

\* buildPrompt(): the text as the values its template is filled with: the
\* rule (display_name, claude_reads, step_instruction), the story id, the
\* attempt line, the human instruction, the failing tests of the previous
\* attempt, the test results injected at update-memory, the agent-teams block
buildPrompt(s, rule) ==
    [ rule          |-> rule,
      story         |-> IF s.story = Null THEN "BOOTSTRAP" ELSE s.story,
      attempt_line  |-> IF s.attempt > 1
                        THEN <<s.attempt, s.max_attempts>> ELSE <<>>,
      human_note    |-> IF s.human_note = Null \/ s.human_note = ""
                        THEN <<>> ELSE <<s.human_note>>,
      failing_tests |-> IF s.attempt > 1 /\ Len(s.failing_tests) > 0
                        THEN s.failing_tests ELSE <<>>,
      tests         |-> IF s.step = "update-memory" /\ s.tests # NoTests
                        THEN <<s.tests, s.files_changed>> ELSE <<>>,
      agent_teams   |-> s.agent_teams ]

\* the DispatchResult of type "dispatched" with its prompt
Dispatched(s) ==
    [ type |-> "dispatched", step |-> s.step, attempt |-> s.attempt,
      prompt |-> buildPrompt(s, getRule(s.step)) ]

\* the tail of _dispatch counting the dispatch as one more attempt
dispatchExecutor_counted(s, t, dryRun) ==
    [ st  |-> IF dryRun THEN s
              ELSE markRunning([s EXCEPT !.attempt = s.attempt + 1], t),
      wrote |-> ~dryRun,
      out |-> Dispatched([s EXCEPT !.attempt = s.attempt + 1]) ]

\* the tail of _dispatch: the executor is dispatched
dispatchExecutor(s, t, dryRun) ==
    [ st  |-> IF dryRun THEN s ELSE markRunning(s, t),
      wrote |-> ~dryRun,
      out |-> Dispatched(s) ]

\* status == "failing" with the retry bookkeeping skipped in a dry run
onFailing_stalePreview(s, t, dryRun) ==
    IF isMaxedOut(s)
    THEN [ st  |-> [s EXCEPT !.status = "needs_human"],
           wrote |-> ~dryRun,
           out |-> Outcome("blocked", s.step, 0) ]
    ELSE dispatchExecutor(IF dryRun THEN s ELSE routeFailure(s), t, dryRun)

\* status == "failing"
onFailing(s, t, dryRun) ==
    IF isMaxedOut(s)
    THEN [ st  |-> [s EXCEPT !.status = "needs_human"],
           wrote |-> ~dryRun,
           out |-> Outcome("blocked", s.step, 0) ]
    ELSE dispatchExecutor(routeFailure(s), t, dryRun)

\* status == "pass" without the look at the new step's requires_human
onPass_noLookAhead(s, t, dryRun) ==
    LET s1 == advanceOnPass(s)
    IN  IF s1.step = "done"
        THEN [ st |-> s1, wrote |-> ~dryRun, out |-> Outcome("done", "done", 0) ]
        ELSE dispatchExecutor(adoptLimits(s1, s1.step), t, dryRun)

\* status == "pass"
onPass(s, t, dryRun) ==
    LET s1 == advanceOnPass(s)
    IN  IF s1.step = "done"
        THEN [ st |-> s1, wrote |-> ~dryRun, out |-> Outcome("done", "done", 0) ]
        ELSE IF getRule(s1.step).requires_human
        THEN [ st  |-> [s1 EXCEPT !.status = "needs_human"],
               wrote |-> ~dryRun,
               out |-> Outcome("needs_human", s1.step, 0) ]
        ELSE dispatchExecutor(adoptLimits(s1, s1.step), t, dryRun)

\* the timeout check that commits the timeout in a dry run too
onRunning_eager(s, t, dryRun) ==
    IF isTimedOut(s, t)
    THEN [ st  |-> [s EXCEPT !.status = "timeout", !.completed_at = t],
           wrote |-> TRUE,
           out |-> Outcome("timeout", s.step, 0) ]
    ELSE [ st |-> s, wrote |-> FALSE,
           out |-> Outcome("already_running", s.step, 0) ]

\* status == "running": the timeout check
onRunning(s, t, dryRun) ==
    IF isTimedOut(s, t)
    THEN [ st  |-> [s EXCEPT !.status = "timeout", !.completed_at = t],
           wrote |-> ~dryRun,
           out |-> Outcome("timeout", s.step, 0) ]
    ELSE [ st |-> s, wrote |-> FALSE,
           out |-> Outcome("already_running", s.step, 0) ]

\* the review checkpoint that reports the pause and does not persist it
onCheckpoint_unsaved(s, dryRun) ==
    [ st |-> s, wrote |-> FALSE, out |-> Outcome("needs_human", s.step, 0) ]

\* rule.requires_human && status !== "pass": the review checkpoint
onCheckpoint(s, dryRun) ==
    [ st  |-> [s EXCEPT !.status = "needs_human"],
      wrote |-> s.status # "needs_human" /\ ~dryRun,
      out |-> Outcome("needs_human", s.step, 0) ]

\* _dispatch that takes a pass reported at done for one more advance
_dispatch_advancesDone(s, t, dryRun) ==
    IF s.step = "done" /\ s.status # "pass"
    THEN [ st |-> s, wrote |-> FALSE, out |-> Outcome("done", "done", 0) ]
    ELSE IF s.step = "done"
    THEN dispatchExecutor([s EXCEPT !.step = "update-memory", !.attempt = 1],
                          t, dryRun)
    ELSE IF s.status = "running" THEN onRunning(s, t, dryRun)
    ELSE IF getRule(s.step).requires_human /\ s.status # "pass"
    THEN onCheckpoint(s, dryRun)
    ELSE IF s.status = "pass" THEN onPass(s, t, dryRun)
    ELSE IF s.status = "failing" THEN onFailing(s, t, dryRun)
    ELSE dispatchExecutor(s, t, dryRun)

\* _dispatch(projectRoot, dryRun) on the state s read at time t:
\* st is the state object at return, wrote whether writeState was called with it,
\* out the DispatchResult
_dispatch(s, t, dryRun) ==
    IF s.step = "done"
    THEN [ st |-> s, wrote |-> FALSE, out |-> Outcome("done", "done", 0) ]
    ELSE IF s.status = "running" THEN onRunning(s, t, dryRun)
    ELSE IF getRule(s.step).requires_human /\ s.status # "pass"
    THEN onCheckpoint(s, dryRun)
    ELSE IF s.status = "pass" THEN onPass(s, t, dryRun)
    ELSE IF s.status = "failing" THEN onFailing(s, t, dryRun)
    ELSE dispatchExecutor(s, t, dryRun)

\* writeState that writes without validating
writeState_unchecked(old, new) == new

\* writeState(): the document is replaced when validate() returns, and is left
\* as it was when validate() throws
writeState(old, new) == IF validate(new) THEN new ELSE old


\* ---- orchestrator dispatch <project-root> ----
Dispatch ==
    LET d == _dispatch(state, now, FALSE)
    IN  /\ state' = IF d.wrote THEN writeState(state, d.st) ELSE state
        /\ result' = Seen(d.out, state.status)
        /\ run_active' = CASE d.out.type = "dispatched" -> TRUE
                           [] d.out.type = "timeout" -> FALSE
                           [] OTHER -> run_active
        /\ UNCHANGED <<now, held, hookVars>>

\* the exit status of 'orchestrator dispatch' for each type of DispatchResult:
\* process.exit(1) in the cases blocked and timeout, a normal return otherwise
exitStatus(type) == IF type \in {"blocked", "timeout"} THEN 1 ELSE 0

\* the outcomes of a decide call that are expected states of the pipeline
ExpectedOutcomes ==
    {"dispatched", "done", "needs_human", "blocked", "already_running",
     "timeout"}

\* elapsedMinutes(state.dispatched_at), the elapsed_min of the results of type
\* "timeout" and "already_running" (0 in the results that carry none)
elapsedMinutes(s, t, type) ==
    IF type \in {"timeout", "already_running"} /\ s.dispatched_at # NoTime
    THEN t - s.dispatched_at ELSE 0

\* what a preview left on its caller's side: the result peek() returned with
\* its elapsed_min, and the status it read
Previewed(out, status, elapsed) ==
    [type |-> out.type, step |-> out.step, attempt |-> out.attempt,
     was |-> status, elapsed_min |-> elapsed, preview |-> TRUE]

\* ---- peek(projectRoot) ----
Peek ==
    LET d == _dispatch(state, now, TRUE)
    IN  /\ state' = IF d.wrote THEN writeState(state, d.st) ELSE state
        /\ result' = Previewed(d.out, state.status,
                               elapsedMinutes(state, now, d.out.type))
        /\ UNCHANGED <<now, run_active, held, hookVars>>

-----------------------------------------------------------------------------
(* dispatch.ts: apply-handoff, post-check, review gate, start commands *)

\* JSON null of a test tally of the report
NoCount == -1

\* parseHandoff() found no .ai/HANDOFF.md
NoHandoff ==
    [ present |-> FALSE, status |-> Null, reason |-> Null,
      files_changed |-> <<>>, tests_pass |-> NoCount, tests_fail |-> NoCount,
      tests_skip |-> NoCount ]

\* a parsed HandoffData
HandoffData(status, reason, files, pass, fail, skip) ==
    [ present |-> TRUE, status |-> status, reason |-> reason,
      files_changed |-> files, tests_pass |-> pass, tests_fail |-> fail,
      tests_skip |-> skip ]

\* the status values a report may carry: none, each status of the state
\* machine, and a word outside the enum
HandoffStatuses == {Null} \cup VALID_STATUSES \cup {"bogus"}

\* the reasons a report may carry besides none
HandoffReasons == VALID_REASONS \cup {"bogus"}

ReportedFiles == <<"a.ts", "b.ts">>

\* the reports the executor may leave behind
Handoffs ==
    {NoHandoff}
    \cup {HandoffData(st, Null, <<>>, NoCount, NoCount, NoCount) :
            st \in HandoffStatuses}
    \cup {HandoffData("failing", r, <<>>, NoCount, NoCount, NoCount) :
            r \in HandoffReasons}
    \cup {HandoffData("failing", "needs_clarification", ReportedFiles,
                       42, 2, NoCount)}
    \cup {HandoffData(Null, Null, ReportedFiles, 42, 2, NoCount)}

\* the reports whose status or reason is outside its enum
BadHandoffs ==
    {h \in Handoffs : \/ h.status \notin VALID_STATUSES \cup {Null}
                      \/ h.reason \notin VALID_REASONS \cup {Null}}

\* a line of the front matter: "key: value", or a line parseSimpleYaml finds
\* no key in (no colon past the first column)
YamlLine(k, v) == [key |-> k, value |-> v]
NoKeyLine == [key |-> "", value |-> ""]

\* the keywords of parseFallback's reasonMap, in its order
FallbackKeywords ==
    << <<"NEEDS CLARIFICATION", "needs_clarification">>,
       <<"CONSTITUTION VIOLATION", "constitution_violation">>,
       <<"SCOPE WARNING", "scope_warning">> >>

\* the texts of .ai/HANDOFF.md: how the text opens (with the "---" line, with
\* a damaged one such as "----" or a blank line before it, or with no block),
\* the lines of the block, whether the block is closed by a second "---", and
\* the keywords that occur anywhere in the text
Documents ==
    [ open    : {"fence", "damaged", "none"},
      lines   : { <<>>,
                  <<NoKeyLine>>,
                  <<YamlLine("status", "pass")>>,
                  <<YamlLine("status", "failing"),
                    YamlLine("reason", "needs_clarification")>> },
      closed  : BOOLEAN,
      markers : { {}, {"NEEDS CLARIFICATION"}, {"SCOPE WARNING"} } ]

\* parseSimpleYaml(): the value of a key, the last line that gives it winning
yamlValue(lines, key) ==
    LET idx == {i \in 1..Len(lines) : lines[i].key = key}
    IN  IF idx = {} THEN Null
        ELSE lines[CHOOSE i \in idx : \A j \in idx : j <= i].value

\* parseYamlFrontMatter(): the fields of the block, null where it has none
parseYamlFrontMatter(doc) ==
    HandoffData(yamlValue(doc.lines, "status"), yamlValue(doc.lines, "reason"),
                <<>>, NoCount, NoCount, NoCount)

\* parseFallback(): the first keyword of reasonMap the text includes
parseFallback(doc) ==
    LET hits == {i \in 1..Len(FallbackKeywords) :
                    FallbackKeywords[i][1] \in doc.markers}
        reason == IF hits = {} THEN Null
                  ELSE FallbackKeywords[CHOOSE i \in hits :
                                           \A j \in hits : i <= j][2]
    IN  HandoffData(IF reason # Null THEN "failing" ELSE "pass", reason,
                    <<>>, NoCount, NoCount, NoCount)

\* parseHandoff() on an existing file: front matter when the first line is
\* "---", the keyword scan otherwise
parseHandoff(doc) ==
    IF doc.open = "fence" THEN parseYamlFrontMatter(doc) ELSE parseFallback(doc)

\* ?? of a test tally
orZero(n) == IF n = NoCount THEN 0 ELSE n

\* applyHandoff that takes a report without a status for a pass
applyHandoff_noInference(s, h, t) ==
    IF ~h.present
    THEN [s EXCEPT !.status = "failing", !.reason = Null, !.completed_at = t]
    ELSE
      LET status == IF h.status # Null THEN h.status ELSE "pass"
          files  == IF Len(h.files_changed) > 0
                    THEN h.files_changed ELSE s.files_changed
          tallied == \/ h.tests_pass # NoCount
                     \/ h.tests_fail # NoCount
                     \/ h.tests_skip # NoCount
      IN  [s EXCEPT !.status = status,
                    !.reason = h.reason,
                    !.completed_at = t,
                    !.files_changed = files,
                    !.tests = IF tallied
                              THEN <<orZero(h.tests_pass), orZero(h.tests_fail),
                                     orZero(h.tests_skip)>>
                              ELSE s.tests,
                    !.failing_tests = IF tallied THEN <<>> ELSE s.failing_tests]

\* applyHandoff that returns without writing when there is no report
applyHandoff_skipsMissing(s, h, t) ==
    IF ~h.present
    THEN s
    ELSE
      LET status == IF h.status # Null THEN h.status
                    ELSE IF h.tests_fail # NoCount /\ h.tests_fail > 0
                         THEN "failing" ELSE "pass"
          files  == IF Len(h.files_changed) > 0
                    THEN h.files_changed ELSE s.files_changed
          tallied == \/ h.tests_pass # NoCount
                     \/ h.tests_fail # NoCount
                     \/ h.tests_skip # NoCount
      IN  [s EXCEPT !.status = status,
                    !.reason = h.reason,
                    !.completed_at = t,
                    !.files_changed = files,
                    !.tests = IF tallied
                              THEN <<orZero(h.tests_pass), orZero(h.tests_fail),
                                     orZero(h.tests_skip)>>
                              ELSE s.tests,
                    !.failing_tests = IF tallied THEN <<>> ELSE s.failing_tests]

\* applyHandoff(): the state object handed to writeState at time t
applyHandoff(s, h, t) ==
    IF ~h.present
    THEN [s EXCEPT !.status = "failing", !.reason = Null, !.completed_at = t]
    ELSE
      LET status == IF h.status # Null THEN h.status
                    ELSE IF h.tests_fail # NoCount /\ h.tests_fail > 0
                         THEN "failing" ELSE "pass"
          files  == IF Len(h.files_changed) > 0
                    THEN h.files_changed ELSE s.files_changed
          tallied == \/ h.tests_pass # NoCount
                     \/ h.tests_fail # NoCount
                     \/ h.tests_skip # NoCount
      IN  [s EXCEPT !.status = status,
                    !.reason = h.reason,
                    !.completed_at = t,
                    !.files_changed = files,
                    !.tests = IF tallied
                              THEN <<orZero(h.tests_pass), orZero(h.tests_fail),
                                     orZero(h.tests_skip)>>
                              ELSE s.tests,
                    !.failing_tests = IF tallied THEN <<>> ELSE s.failing_tests]

\* what a command that returns no DispatchResult leaves in result: the
\* command's name when it returned, "error" when it threw
Returned(op) == Seen(Outcome(op, "-", 0), "-")
Threw == Seen(Outcome("error", "-", 0), "-")

\* what a command whose writeState threw in validate() leaves in result
Refused(op) == Seen(Outcome("invalid", op, 0), "-")

\* a command that ends with writeState(new)
Written(op, new) == IF validate(new) THEN Returned(op) ELSE Refused(op)

\* ---- orchestrator apply-handoff <project-root> ----
ApplyHandoff(h) ==
    LET new == applyHandoff(state, h, now)
    IN  /\ state' = writeState(state, new)
        /\ result' = Written("apply-handoff", new)
        /\ run_active' = IF validate(new) THEN FALSE ELSE run_active
        /\ UNCHANGED <<now, held, hookVars>>

\* ---- orchestrator apply-handoff <project-root>, HANDOFF.md holding doc ----
ApplyDocument(doc) == ApplyHandoff(parseHandoff(doc))

\* the recording of a failed command that also fails the step
recordCheck_failsStep(s, ok) ==
    IF ok THEN [s EXCEPT !.lint_pass = "true"]
    ELSE [s EXCEPT !.lint_pass = "false", !.status = "failing"]

\* runPostCheck() past 'if (!rule.post_check) return true': the try/catch
\* around execSync; ok is whether the command exits with status 0
recordCheck(s, ok) ==
    [s EXCEPT !.lint_pass = IF ok THEN "true" ELSE "false"]

\* runPostCheck(): ok is whether the declared command exits with status 0
runPostCheck(s, ok) ==
    IF getRule(s.step).post_check = NoCheck
    THEN s
    ELSE recordCheck(s, ok)

\* ---- orchestrator post-check <project-root> ----
RunPostCheck(ok) ==
    /\ IF state.step = "done"
       THEN /\ result' = Threw
            /\ state' = state
       ELSE /\ state' = writeState(state, runPostCheck(state, ok))
            /\ result' = Returned("post-check")
    /\ UNCHANGED <<now, run_active, held, hookVars>>

\* the steps given a post_check by the documented customisation of the rules
\* table (STEP_RULES.impl.post_check = "eslint . && tsc --noEmit", ...)
CheckedSteps == {"scaffold", "impl", "verify"}

\* ---- orchestrator post-check <project-root>, at a step with a command ----
RunDeclaredCheck(ok) ==
    /\ state.step \in CheckedSteps
    /\ state' = writeState(state, recordCheck(state, ok))
    /\ result' = Written("post-check", recordCheck(state, ok))
    /\ UNCHANGED <<now, run_active, held, hookVars>>

\* the notes the human may attach (Null: no note given)
Notes == {Null, "note"}

\* the approval that stores the note and leaves the status as it was
approveReview_noteOnly(s, note) ==
    [s EXCEPT !.human_note = note]

approveReview(s, note) ==
    [s EXCEPT !.status = "pass", !.human_note = note]

\* approve without the test of the current step
ApproveReview_anyStep ==
    /\ \E note \in Notes :
            /\ state' = writeState(state, approveReview(state, note))
            /\ result' = Written("approve", approveReview(state, note))
    /\ UNCHANGED <<now, run_active, held, hookVars>>

\* ---- orchestrator approve <project-root> [note] ----
ApproveReview ==
    /\ IF state.step # "review"
       THEN /\ result' = Threw
            /\ state' = state
       ELSE \E note \in Notes :
            /\ state' = writeState(state, approveReview(state, note))
            /\ result' = Written("approve", approveReview(state, note))
    /\ UNCHANGED <<now, run_active, held, hookVars>>

rejectReview(s, reason, note) ==
    [s EXCEPT !.status = "failing", !.reason = reason, !.human_note = note]

\* the reasons the human may give: the enum and a word outside it
RejectReasons == VALID_REASONS \cup {"bogus"}

\* ---- orchestrator reject <project-root> <reason> [note] ----
RejectReview ==
    /\ IF state.step # "review"
       THEN /\ result' = Threw
            /\ state' = state
       ELSE \E reason \in RejectReasons, note \in Notes :
            /\ state' = writeState(state, rejectReview(state, reason, note))
            /\ result' = Written("reject", rejectReview(state, reason, note))
    /\ UNCHANGED <<now, run_active, held, hookVars>>

\* startStory(): every run field reset, the unit placed at bdd
startStory(s, storyId, agentTeams) ==
    [s EXCEPT !.story = storyId,
              !.step = "bdd",
              !.attempt = 1,
              !.max_attempts = getRule("bdd").max_attempts,
              !.status = "pending",
              !.reason = Null,
              !.dispatched_at = NoTime,
              !.completed_at = NoTime,
              !.timeout_min = getRule("bdd").timeout_min,
              !.tests = NoTests,
              !.failing_tests = <<>>,
              !.lint_pass = Null,
              !.files_changed = <<>>,
              !.blocked_by = <<>>,
              !.human_note = Null,
              !.agent_teams = agentTeams]

StoryIds == {"US-001"}

\* ---- orchestrator start-story <project-root> <story-id> ----
StartStory(storyId) ==
    /\ state' = writeState(state, startStory(state, storyId, FALSE))
    /\ result' = Written("start-story", startStory(state, storyId, FALSE))
    /\ UNCHANGED <<now, run_active, held, hookVars>>

\* startCustom(): label Null stands for "no label given"
startCustom(s, instruction, label, agentTeams, t) ==
    [s EXCEPT !.story = IF label # Null THEN label
                        ELSE "CUSTOM-" \o ToString(t),
              !.step = "custom",
              !.attempt = 1,
              !.max_attempts = getRule("custom").max_attempts,
              !.status = "pending",
              !.reason = Null,
              !.dispatched_at = NoTime,
              !.completed_at = NoTime,
              !.timeout_min = getRule("custom").timeout_min,
              !.tests = NoTests,
              !.failing_tests = <<>>,
              !.lint_pass = Null,
              !.files_changed = <<>>,
              !.blocked_by = <<>>,
              !.human_note = instruction,
              !.task_type = "custom",
              !.agent_teams = agentTeams]

\* the labels given to start-custom
Labels == {"task"}

\* ---- orchestrator start-custom <project-root> <instruction> [label] ----
StartCustom(label, agentTeams) ==
    LET new == startCustom(state, "instruction", label, agentTeams, now)
    IN  /\ state' = writeState(state, new)
        /\ result' = Written("start-custom", new)
        /\ UNCHANGED <<now, run_active, held, hookVars>>

\* time passes
Tick ==
    /\ now + TickMinutes <= MaxClock
    /\ now' = now + TickMinutes
    /\ UNCHANGED <<state, result, run_active, held, hookVars>>

-----------------------------------------------------------------------------
(* notify-agi.sh: the Stop / SessionEnd hook *)

\* the number of hook invocations
NumHooks == 2
\* the hook host's clock stops advancing at MaxSeconds
MaxSeconds == 6

MAX_RETRIES == 3
RETRY_DELAY == 2
\* [ "$AGE" -lt 5 ]
CooldownSeconds == 5
\* sleep 1  # wait for tee flush
FlushSeconds == 1
\* find ... -mmin +60 -delete
SessionLockMinutes == 60

HookIds == 1..NumHooks

\* the session_id of the hook event; "unknown" when the event carries none
SessionIds == {"s1", "s2"}
UnknownSession == "unknown"

\* the project (the cwd of the hook event) a session works in: the two
\* sessions are the executors of two different projects
ProjectOf(sid) == IF sid = "s1" THEN "project" ELSE "other-project"

\* an invocation not yet started: its program counter, the script's variables
\* (SESSION_ID, NOTIFY_REQUIRED, SENT, the loop index, the end of its sleep),
\* and follows: whether it was started after an invocation for the same session
\* had exited with its notification unsent
IdleHook ==
    [ pc |-> "idle", session |-> UnknownSession, notify_required |-> FALSE,
      sent |-> FALSE, tries |-> 0, wake |-> 0, follows |-> FALSE ]

\* an invocation that exited with a required notification unsent
leftUnsent(h) == h.pc = "done" /\ h.notify_required /\ ~h.sent

\* the invocations that got past both dedup guards
PastGuards == {"collect", "apply", "notify", "finalize", "done"}

\* the hook is started by a Stop or SessionEnd event of session sid
Fire(i, sid) ==
    /\ hooks[i].pc = "idle"
    /\ \A j \in HookIds : j < i => hooks[j].pc # "idle"
    /\ hooks' = [hooks EXCEPT ![i] =
                    [IdleHook EXCEPT
                        !.pc = "dedup1",
                        !.session = sid,
                        !.follows = /\ sid # UnknownSession
                                    /\ \E k \in HookIds :
                                          /\ hooks[k].session = sid
                                          /\ leftUnsent(hooks[k])]]
    /\ UNCHANGED <<hook_lock, session_locks, clock_s, applied, notified, orchVars>>

\* find "$GLOBAL_LOCK_DIR" -name '.session-*.lock' -mmin +60 -delete
cleanSessionLocks(locks, t) ==
    [s \in SessionIds |->
        IF locks[s] # NoTime /\ ((t - locks[s]) \div 60) > SessionLockMinutes
        THEN NoTime ELSE locks[s]]

\* Dedup 1: session-ID lock
Dedup1(i) ==
    /\ hooks[i].pc = "dedup1"
    /\ IF hooks[i].session # UnknownSession
       THEN IF session_locks[hooks[i].session] # NoTime
            THEN /\ hooks' = [hooks EXCEPT ![i].pc = "skipped"]
                 /\ UNCHANGED session_locks
            ELSE /\ hooks' = [hooks EXCEPT ![i].pc = "dedup2"]
                 /\ session_locks' = cleanSessionLocks(session_locks, clock_s)
       ELSE /\ hooks' = [hooks EXCEPT ![i].pc = "dedup2"]
            /\ UNCHANGED session_locks
    /\ UNCHANGED <<hook_lock, clock_s, applied, notified, orchVars>>

\* Dedup 2: the test of the cooldown lock's age
inCooldown(lock, t) == lock # NoTime /\ (t - lock) < CooldownSeconds

Dedup2(i) ==
    /\ hooks[i].pc = "dedup2"
    /\ hooks' = [hooks EXCEPT ![i].pc =
                    IF inCooldown(hook_lock, clock_s) THEN "skipped" ELSE "touch"]
    /\ UNCHANGED <<hook_lock, session_locks, clock_s, applied, notified, orchVars>>

\* touch "$LOCK_FILE"; sleep 1
TouchLock(i) ==
    /\ hooks[i].pc = "touch"
    /\ hook_lock' = clock_s
    /\ hooks' = [hooks EXCEPT ![i].pc = "collect",
                              ![i].wake = clock_s + FlushSeconds]
    /\ UNCHANGED <<session_locks, clock_s, applied, notified, orchVars>>

\* the sleep is over: output collected, latest.json written
Collect(i) ==
    /\ hooks[i].pc = "collect"
    /\ clock_s >= hooks[i].wake
    /\ hooks' = [hooks EXCEPT ![i].pc = "apply"]
    /\ UNCHANGED <<hook_lock, session_locks, clock_s, applied, notified, orchVars>>

\* Apply HANDOFF: orchestrator apply-handoff "$CWD" when STATE.json and
\* HANDOFF.md exist (present); then task-meta.json is read (required: it names
\* a channel and a target) and the retry loop is guarded by that and by
\* command -v "$OPENCLAW_BIN" (bin)
ApplyStep(i, present, required, bin) ==
    /\ hooks[i].pc = "apply"
    /\ applied' = IF present
                  THEN [applied EXCEPT ![hooks[i].session] = @ + 1]
                  ELSE applied
    /\ hooks' = [hooks EXCEPT ![i].notify_required = required,
                              ![i].pc = IF required /\ bin
                                        THEN "notify" ELSE "finalize"]
    /\ UNCHANGED <<hook_lock, session_locks, clock_s, notified, orchVars>>

\* one round of the retry loop: openclaw message send succeeds (ok) or fails
Send(i, ok) ==
    /\ hooks[i].pc = "notify"
    /\ clock_s >= hooks[i].wake
    /\ IF ok
       THEN /\ hooks' = [hooks EXCEPT ![i].sent = TRUE,
                                      ![i].tries = @ + 1,
                                      ![i].pc = "finalize"]
            /\ notified' = [notified EXCEPT ![hooks[i].session] = @ + 1]
       ELSE /\ hooks' = [hooks EXCEPT
                            ![i].tries = @ + 1,
                            ![i].wake = IF hooks[i].tries + 1 < MAX_RETRIES
                                        THEN clock_s + RETRY_DELAY ELSE @,
                            ![i].pc = IF hooks[i].tries + 1 < MAX_RETRIES
                                      THEN "notify" ELSE "finalize"]
            /\ UNCHANGED notified
    /\ UNCHANGED <<hook_lock, session_locks, clock_s, applied, orchVars>>

\* whether the Finalize block touches the session lock
locksSession(h) ==
    /\ h.session # UnknownSession
    /\ (~h.notify_required \/ h.sent)

\* Write pending-wake, Finalize session lock, exit 0
Finalize(i) ==
    /\ hooks[i].pc = "finalize"
    /\ session_locks' = IF locksSession(hooks[i])
                        THEN [session_locks EXCEPT ![hooks[i].session] = clock_s]
                        ELSE session_locks
    /\ hooks' = [hooks EXCEPT ![i].pc = "done"]
    /\ UNCHANGED <<hook_lock, clock_s, applied, notified, orchVars>>

\* a second passes on the hook host
HookTick ==
    /\ clock_s < MaxSeconds
    /\ clock_s' = clock_s + 1
    /\ UNCHANGED <<hooks, hook_lock, session_locks, applied, notified, orchVars>>

-----------------------------------------------------------------------------
(* Specifications *)

Init ==
    /\ state = createInitialState("project")
    /\ now = 0
    /\ result = Returned("init")
    /\ run_active = FALSE
    /\ held = <<>>
    /\ hooks = [i \in HookIds |-> IdleHook]
    /\ hook_lock = NoTime
    /\ session_locks = [s \in SessionIds |-> NoTime]
    /\ clock_s = 0
    /\ applied = [s \in SessionIds \cup {UnknownSession} |-> 0]
    /\ notified = [s \in SessionIds \cup {UnknownSession} |-> 0]

\* the command surface of one project
Next ==
    \/ Dispatch
    \/ \E h \in Handoffs : ApplyHandoff(h)
    \/ \E ok \in BOOLEAN : RunPostCheck(ok)
    \/ ApproveReview
    \/ RejectReview
    \/ \E id \in StoryIds : StartStory(id)
    \/ \E label \in Labels, teams \in BOOLEAN : StartCustom(label, teams)
    \/ Tick

Spec == Init /\ [][Next]_vars

\* the reports of a run in every combination of a status (none, given, outside
\* the enum), a reason and a count of failing tests (absent, zero, nonzero)
Reports ==
    {HandoffData(st, r, <<>>, IF f = NoCount THEN NoCount ELSE 42, f, NoCount) :
        st \in {Null, "pass", "failing", "bogus"},
        r \in {Null, "needs_clarification"},
        f \in {NoCount, 0, 2}}

\* the pipeline driven by reports alone: start-story, dispatch, apply-handoff
ReportNext ==
    \/ \E h \in Reports : ApplyHandoff(h)
    \/ Dispatch
    \/ \E id \in StoryIds : StartStory(id)
    \/ Tick

ReportSpec == Init /\ [][ReportNext]_vars

\* the pipeline driven by the texts of HANDOFF.md
ParseNext ==
    \/ \E doc \in Documents : ApplyDocument(doc)
    \/ Dispatch
    \/ \E id \in StoryIds : StartStory(id)
    \/ Tick

ParseSpec == Init /\ [][ParseNext]_vars

\* the reports of a run that succeeded: with the status given, and with the
\* status left to the tallies
PassReports ==
    { HandoffData("pass", Null, <<>>, NoCount, NoCount, NoCount),
      HandoffData(Null, Null, ReportedFiles, 42, 0, NoCount) }

\* the run in progress ends and its report is applied
ReportPass ==
    /\ state.status = "running"
    /\ \E h \in PassReports : ApplyHandoff(h)

\* the human approves while the pipeline is paused at the checkpoint
ApprovePaused ==
    /\ state.step = "review"
    /\ state.status = "needs_human"
    /\ ApproveReview

\* a unit is started on a fresh project or after the previous unit is done
StartUnit ==
    /\ result.type = "init" \/ state.step = "done"
    /\ \/ \E id \in StoryIds : StartStory(id)
       \/ \E label \in Labels, teams \in BOOLEAN : StartCustom(label, teams)

\* the success path of the main loop: decide is called again and again, every
\* run reports a pass, the human approves at the checkpoint
LiveNext ==
    \/ Dispatch
    \/ ReportPass
    \/ ApprovePaused
    \/ StartUnit
    \/ Tick

LiveSpec ==
    /\ Init
    /\ [][LiveNext]_vars
    /\ WF_vars(Dispatch)
    /\ SF_vars(ReportPass)
    /\ WF_vars(ApprovePaused)

\* runPostCheck(): 'const state = readState(projectRoot)', before execSync
ReadForCheck ==
    /\ held = <<>>
    /\ state.step \in CheckedSteps
    /\ held' = <<[op |-> "post-check", doc |-> state, at |-> now]>>
    /\ UNCHANGED <<state, now, result, run_active, hookVars>>

\* runPostCheck(): the command has exited (ok: with status 0); the document
\* read before it ran is written back with lint_pass set
WriteCheck(ok) ==
    /\ held # <<>>
    /\ held[1].op = "post-check"
    /\ state' = writeState(state, recordCheck(held[1].doc, ok))
    /\ result' = Written("post-check", recordCheck(held[1].doc, ok))
    /\ held' = <<>>
    /\ UNCHANGED <<now, run_active, hookVars>>

\* _dispatch(): 'const state = readState(projectRoot)' of a poll
ReadForDispatch ==
    /\ held = <<>>
    /\ held' = <<[op |-> "dispatch", doc |-> state, at |-> now]>>
    /\ UNCHANGED <<state, now, result, run_active, hookVars>>

\* _dispatch(): the rest of the call, computed on the document it read and
\* the clock as it stood then
WriteDispatch ==
    /\ held # <<>>
    /\ held[1].op = "dispatch"
    /\ LET d == _dispatch(held[1].doc, held[1].at, FALSE)
       IN  /\ state' = IF d.wrote THEN writeState(state, d.st) ELSE state
           /\ result' = Seen(d.out, held[1].doc.status)
           /\ run_active' = CASE d.out.type = "dispatched" -> TRUE
                              [] d.out.type = "timeout" -> FALSE
                              [] OTHER -> run_active
    /\ held' = <<>>
    /\ UNCHANGED <<now, hookVars>>

\* the reports the hook applies while the coordinator is at work
RaceReports ==
    PassReports \cup {HandoffData("failing", "needs_clarification", <<>>,
                                  NoCount, NoCount, NoCount)}

\* the coordinator's calls taken apart into their read and their write, with
\* the hook's apply-handoff free to run in between
RaceNext ==
    \/ \E id \in StoryIds : StartStory(id)
    \/ ReadForDispatch
    \/ WriteDispatch
    \/ ReadForCheck
    \/ \E ok \in BOOLEAN : WriteCheck(ok)
    \/ \E h \in RaceReports : ApplyHandoff(h)
    \/ ApproveReview
    \/ Tick

RaceSpec == Init /\ [][RaceNext]_vars

\* the pipeline of a project whose rules declare verification commands
CheckNext ==
    \/ \E id \in StoryIds : StartStory(id)
    \/ Dispatch
    \/ \E h \in Handoffs : ApplyHandoff(h)
    \/ \E ok \in BOOLEAN : RunDeclaredCheck(ok)
    \/ ApproveReview
    \/ Tick

CheckSpec == Init /\ [][CheckNext]_vars

\* the command surface with the read-only preview
PeekNext ==
    \/ Next
    \/ Peek

PeekSpec == Init /\ [][PeekNext]_vars

\* the hook invocations of one host
HookNext ==
    \/ \E i \in HookIds, sid \in SessionIds \cup {UnknownSession} : Fire(i, sid)
    \/ \E i \in HookIds : Dedup1(i)
    \/ \E i \in HookIds : Dedup2(i)
    \/ \E i \in HookIds : TouchLock(i)
    \/ \E i \in HookIds : Collect(i)
    \/ \E i \in HookIds, present \in BOOLEAN, required \in BOOLEAN,
          bin \in BOOLEAN : ApplyStep(i, present, required, bin)
    \/ \E i \in HookIds, ok \in BOOLEAN : Send(i, ok)
    \/ \E i \in HookIds : Finalize(i)
    \/ HookTick

HookSpec == Init /\ [][HookNext]_vars

-----------------------------------------------------------------------------
(* Properties of the dispatch state machine *)

\* C1: a decide call on a failing state whose failure route is the step itself
\* raises attempt by exactly 1 and dispatches the same step while attempt is
\* below max_attempts; once attempt has reached max_attempts it returns Blocked,
\* sets status to needs_human and dispatches nothing.
C1_RetryThenBlocked ==
    [][ ( /\ Dispatch
          /\ state.status = "failing"
          /\ state.step # "done"
          /\ getFailTarget(state.step, state.reason) = state.step )
        => IF state.attempt < state.max_attempts
           THEN /\ state'.attempt = state.attempt + 1
                /\ state'.step = state.step
                /\ state'.status = "running"
                /\ result'.type = "dispatched"
                /\ result'.attempt = state.attempt + 1
           ELSE /\ result'.type = "blocked"
                /\ state'.status = "needs_human"
                /\ state'.attempt = state.attempt
                /\ state'.step = state.step ]_vars

\* C1 witness: a step retried in place up to its ceiling has been blocked
C1_Witness ==
    /\ result.type = "blocked"
    /\ result.was = "failing"
    /\ state.status = "needs_human"
    /\ state.attempt = state.max_attempts
    /\ state.attempt >= 2

\* C2: the decide call that follows a Blocked outcome, with no command in
\* between, does not return Dispatched: a blocked step is not retried until a
\* human has acted.
C2_BlockedWaitsForHuman ==
    [][ (Dispatch /\ result.type = "blocked") => result'.type # "dispatched" ]_vars

C4_RejectIsRouted ==
    [][ (Dispatch /\ result.type = "reject")
        => LET target == getFailTarget("review", state.reason)
           IN  /\ state'.step = target
               /\ state'.attempt = 1
               /\ state'.max_attempts = getRule(target).max_attempts
               /\ state'.timeout_min = getRule(target).timeout_min
               /\ result'.type = "dispatched"
               /\ result'.step = target ]_vars

C7_SingleActiveRun ==
    [][ (Dispatch /\ run_active) => result'.type # "dispatched" ]_vars

-----------------------------------------------------------------------------
(* Properties of the completion hook *)

\* C9: for one executor session, at most one hook invocation gets past both
\* dedup guards, so its report is applied and its notification sent at most once.
C9_AtMostOncePerRun ==
    \A s \in SessionIds :
        /\ Cardinality({i \in HookIds :
                          hooks[i].session = s /\ hooks[i].pc \in PastGuards}) <= 1
        /\ applied[s] <= 1

\* C10: the session lock exists only once an invocation for that session has
\* exited with its notification sent or not required; and an invocation started
\* after one for the same session exited with its notification unsent is not
\* skipped while the session is unlocked: the failed notification is retried.
C10_FailedNotifyIsRetried ==
    /\ \A s \in SessionIds :
          session_locks[s] # NoTime
          => \E i \in HookIds : /\ hooks[i].session = s
                                /\ hooks[i].pc = "done"
                                /\ locksSession(hooks[i])
    /\ \A j \in HookIds :
          (hooks[j].follows /\ hooks[j].pc = "skipped")
          => session_locks[hooks[j].session] # NoTime

-----------------------------------------------------------------------------
(* Properties of the preview *)

\* C11: in every state, peek returns the DispatchResult dispatch would return
\* on that state at that time: the same type, step, attempt and prompt.
C11_PreviewEqualsDecide ==
    _dispatch(state, now, TRUE).out = _dispatch(state, now, FALSE).out

\* C11 witness: a failing state below its ceiling has been previewed, and the
\* preview shows the retry
C11_Witness ==
    /\ "preview" \in DOMAIN result
    /\ result.type = "dispatched"
    /\ state.status = "failing"
    /\ result.attempt = state.attempt + 1
    /\ _dispatch(state, now, FALSE).out.prompt.attempt_line
         = <<state.attempt + 1, state.max_attempts>>

\* C12: a preview leaves STATE.json as it was, and a preview that follows a
\* preview at the same clock reading returns the same result.
C12_PreviewIsInert ==
    [][ Peek
        => /\ state' = state
           /\ ( ( /\ "preview" \in DOMAIN result
                  /\ result.elapsed_min
                       = elapsedMinutes(state, now, result.type) )
                => result' = result ) ]_vars

\* C12 witness: a run past its budget has been previewed and is still running
C12_Witness ==
    /\ "preview" \in DOMAIN result
    /\ result.type = "timeout"
    /\ state.status = "running"
    /\ now - state.dispatched_at > state.timeout_min

-----------------------------------------------------------------------------
(* Invariants of the persisted state *)

\* C13: in every reachable state, 1 <= attempt <= max_attempts whenever status
\* is pending, running or failing.
C13_AttemptWithinCeiling ==
    state.status \in {"pending", "running", "failing"}
    => (1 <= state.attempt /\ state.attempt <= state.max_attempts)

\* C13 witness: the last permitted attempt of a step with several is running
C13_Witness ==
    /\ state.status = "running"
    /\ state.attempt = state.max_attempts
    /\ state.attempt >= 2
    /\ result.type = "dispatched"
    /\ result.was = "failing"

\* C14: every change of step made by a command other than the two start
\* commands (dispatch, apply-handoff, approve, reject, post-check) goes from a
\* pass state to the old step's next_on_pass, or from a failing state below the
\* ceiling to the on_fail target of the old step for the current reason.
C14_StepFollowsRules ==
    [][ ( /\ state'.step # state.step
          /\ result'.type \notin {"start-story", "start-custom"} )
        => LET rule == getRule(state.step)
           IN  \/ /\ state.status = "pass"
                  /\ state'.step = rule.next_on_pass
               \/ /\ state.status = "failing"
                  /\ state.attempt < state.max_attempts
                  /\ state'.step = IF state.reason \in DOMAIN rule.on_fail
                                   THEN rule.on_fail[state.reason]
                                   ELSE rule.on_fail.default ]_vars

\* C14 witness: a failure has been rerouted from impl back to sdd-delta
C14_Witness ==
    /\ result.type = "dispatched"
    /\ result.was = "failing"
    /\ state.step = "sdd-delta"
    /\ state.attempt = 1
    /\ state.dispatched_at = now

\* C15: dispatched_at is stamped exactly on the steps that enter running, and
\* completed_at is stamped only on steps that leave running.
C15_StampsFollowRunning ==
    [][ /\ ( (state'.dispatched_at # state.dispatched_at
                /\ state'.dispatched_at # NoTime)
             => (state.status # "running" /\ state'.status = "running") )
        /\ ( (state.status # "running" /\ state'.status = "running")
             => state'.dispatched_at = now )
        /\ ( (state'.completed_at # state.completed_at
                /\ state'.completed_at # NoTime)
             => (state.status = "running" /\ state'.status # "running") )
      ]_vars

\* C16: whenever status is running, the timeout budget is positive.
C16_RunningHasBudget ==
    state.status = "running" => state.timeout_min > 0

\* C17: no command commits a state whose step, status or reason is outside its
\* enum; a command that fails leaves STATE.json exactly as it was; and
\* apply-handoff of a report with an unknown status or reason fails.
C17_InvalidWriteRefused ==
    [][ /\ state'.step \in VALID_STEPS
        /\ state'.status \in VALID_STATUSES
        /\ state'.reason \in VALID_REASONS \cup {Null}
        /\ (result'.type \in {"invalid", "error"} => state' = state)
        /\ \A h \in BadHandoffs :
              ApplyHandoff(h) => result' = Refused("apply-handoff") ]_vars

\* C17 witness: a report with an unknown status or reason has been refused
\* while the run it reports on is still recorded as running
C17_Witness ==
    /\ result = Refused("apply-handoff")
    /\ state.status = "running"
    /\ run_active

\* ---- Properties of one decide call ----

\* C18: a decide call on a state with status pass, at a step whose successor
\* is neither done nor a human checkpoint, moves step to the successor with
\* attempt 1, clears reason, tests, changed files and human_note, adopts the
\* successor's attempt ceiling and timeout budget, and returns Dispatched for
\* the successor with attempt 1.
C18_PassAdvances ==
    [][ \A succ \in VALID_STEPS \ {"done"} :
          ( /\ state.status = "pass"
            /\ state.step # "done"
            /\ getRule(state.step).next_on_pass = succ
            /\ ~getRule(succ).requires_human
            /\ Dispatch )
          => /\ state'.step = succ
             /\ state'.attempt = 1
             /\ state'.reason = Null
             /\ state'.tests = NoTests
             /\ state'.files_changed = <<>>
             /\ state'.human_note = Null
             /\ state'.max_attempts = getRule(succ).max_attempts
             /\ state'.timeout_min = getRule(succ).timeout_min
             /\ result'.type = "dispatched"
             /\ result'.step = succ
             /\ result'.attempt = 1 ]_vars

\* C18 witness: the approved review has been left for the step after it, with
\* the attempt at 1, the approval note gone and the new step's limits in force
C18_Witness ==
    /\ result.type = "dispatched"
    /\ result.was = "pass"
    /\ state.step = getRule("review").next_on_pass
    /\ state.status = "running"
    /\ state.attempt = 1
    /\ state.human_note = Null
    /\ state.max_attempts # getRule("review").max_attempts

\* C19: a decide call on a state with status pass whose successor requires a
\* human checkpoint moves to the successor with status needs_human and returns
\* NeedsHuman for it, and starts no run.
C19_PassStopsAtCheckpoint ==
    [][ \A succ \in VALID_STEPS \ {"done"} :
          ( /\ state.status = "pass"
            /\ state.step # "done"
            /\ getRule(state.step).next_on_pass = succ
            /\ getRule(succ).requires_human
            /\ Dispatch )
          => /\ state'.step = succ
             /\ state'.status = "needs_human"
             /\ result'.type = "needs_human"
             /\ result'.step = succ
             /\ state'.dispatched_at = state.dispatched_at
             /\ run_active' = run_active ]_vars

\* C19 witness: the step before review passed and the same call stopped at
\* review
C19_Witness ==
    /\ result.type = "needs_human"
    /\ result.was = "pass"
    /\ result.step = "review"
    /\ state.step = "review"
    /\ state.status = "needs_human"

\* C20: a decide call on a failing state below its attempt ceiling whose
\* reason routes to another step moves to that step with attempt 1 and that
\* step's attempt ceiling and timeout budget.
C20_RerouteResetsAttempt ==
    [][ \A target \in VALID_STEPS \ {"done"} :
          ( /\ state.status = "failing"
            /\ state.step # "done"
            /\ state.attempt < state.max_attempts
            /\ target = getFailTarget(state.step, state.reason)
            /\ target # state.step
            /\ Dispatch )
          => /\ state'.step = target
             /\ state'.attempt = 1
             /\ state'.max_attempts = getRule(target).max_attempts
             /\ state'.timeout_min = getRule(target).timeout_min ]_vars

\* ---- Properties of the review gate and of apply-handoff ----

\* C21: approve at review sets status to pass and stores the note in
\* human_note, changing nothing else; the decide call that follows an approval
\* advances to scaffold and dispatches it with attempt 1.
C21_ApproveAdvances ==
    [][ /\ (state.step = "review" /\ result'.type = "approve")
           => \E note \in Notes :
                state' = [state EXCEPT !.status = "pass", !.human_note = note]
        /\ (result.type = "approve" /\ Dispatch)
           => /\ state'.step = "scaffold"
              /\ state'.status = "running"
              /\ state'.attempt = 1
              /\ result'.type = "dispatched"
              /\ result'.step = "scaffold"
              /\ result'.attempt = 1 ]_vars

\* C21 witness: the review has just been approved with a note
C21_Witness ==
    /\ result = Returned("approve")
    /\ state.step = "review"
    /\ state.status = "pass"
    /\ state.human_note = "note"

\* C22: while the current step is not review, no approve and no reject
\* succeeds, and the command that threw leaves STATE.json as it was.
C22_GateNeedsReview ==
    [][ state.step # "review"
        => /\ result'.type \notin {"approve", "reject"} \/ result' = result
           /\ (result' = Threw => state' = state) ]_vars

\* C22 witness: an approve or reject has thrown at a step other than review
\* (and other than done, where post-check throws too) during a run
C22_Witness ==
    /\ result = Threw
    /\ state.step \notin {"review", "done"}
    /\ state.status = "running"

\* C23: apply-handoff with no report file returns normally and changes
\* exactly three fields: status becomes failing, reason null, completed_at the
\* time of the call; step and attempt are as before.
C23_MissingReportIsFailing ==
    [][ ApplyHandoff(NoHandoff)
        => /\ result' = Returned("apply-handoff")
           /\ state' = [state EXCEPT !.status = "failing",
                                     !.reason = Null,
                                     !.completed_at = now]
           /\ state'.step = state.step
           /\ state'.attempt = state.attempt ]_vars

\* C23 witness: a second or later attempt has been dispatched, and
\* apply-handoff left it failing with no reason and a completion stamp
C23_Witness ==
    /\ result = Returned("apply-handoff")
    /\ state.status = "failing"
    /\ state.reason = Null
    /\ state.completed_at = now
    /\ state.dispatched_at # NoTime
    /\ state.attempt > 1

\* ---- Properties of a run that ends without a report ----

\* the decide call that follows apply-handoff with no report, both made on the
\* state s at time t
afterLostRun(s, t) == _dispatch(applyHandoff(s, NoHandoff, t), t, FALSE)

C25_ReportSetsStatus ==
    [][ \A h \in Reports :
          (result'.type = "apply-handoff" /\ ApplyHandoff(h))
          => /\ state'.status =
                  IF h.status # Null THEN h.status
                  ELSE IF h.tests_fail \notin {NoCount, 0}
                       THEN "failing" ELSE "pass"
             /\ state'.reason = h.reason ]_vars

\* C25 witness: a report without a status and with failing tests has been
\* applied to a run
C25_Witness ==
    /\ result = Returned("apply-handoff")
    /\ state.status = "failing"
    /\ state.tests = <<42, 2, 0>>
    /\ state.reason = Null
    /\ state.dispatched_at # NoTime

\* ---- Properties of the verification command ----

\* C26: running a step's declared verification command changes lint_pass and
\* nothing else: lint_pass records whether the command succeeded, and step,
\* status, attempt and reason are as before.
C26_CheckOnlyRecords ==
    [][ \A ok \in BOOLEAN :
          RunDeclaredCheck(ok)
          => /\ state' = [state EXCEPT !.lint_pass = state'.lint_pass]
             /\ state'.lint_pass = IF ok THEN "true" ELSE "false"
             /\ state'.step = state.step
             /\ state'.status = state.status
             /\ state'.attempt = state.attempt
             /\ state'.reason = state.reason ]_vars

\* C26 witness: the command of a running step has failed, and the step is
\* still running
C26_Witness ==
    /\ result = Returned("post-check")
    /\ state.lint_pass = "false"
    /\ state.status = "running"
    /\ state.step \in CheckedSteps

\* ---- Properties of several projects on one host ----

\* C27: the finished signal of a session is dropped by the cooldown guard only
\* when an invocation for the same project got past the guards before it; a
\* signal of another project never causes the drop.
C27_ProjectsIndependent ==
    [][ \A i \in HookIds :
          ( /\ hooks[i].pc = "dedup2"
            /\ hooks'[i].pc = "skipped"
            /\ hooks[i].session # UnknownSession )
          => \E k \in HookIds \ {i} :
               /\ hooks[k].pc \in PastGuards
               /\ hooks[k].session # UnknownSession
               /\ ProjectOf(hooks[k].session) = ProjectOf(hooks[i].session) ]_vars

\* ---- Properties of the terminal step ----

\* C28: at step done a decide call returns Completed and leaves STATE.json as
\* it was, whatever the status; and no command but start-story and
\* start-custom moves the step away from done.
C28_DoneIsTerminal ==
    [][ state.step = "done"
        => /\ Dispatch => (result'.type = "done" /\ state' = state)
           /\ result'.type \notin {"start-story", "start-custom"}
              => state'.step = "done" ]_vars

\* C28 witness: a decide call at done has returned Completed on a state whose
\* status a late report had set to failing
C28_Witness ==
    /\ state.step = "done"
    /\ state.status = "failing"
    /\ result.type = "done"
    /\ result.was = "failing"

\* ---- Properties of the rules table ----

\* C29: following next_on_pass from bdd visits every step of the pipeline
\* exactly once, in the pipeline's order, and ends at done, met exactly once;
\* and from the step of every reachable state the walk ends at done without
\* meeting a step twice.
C29_PassChainEndsAtDone ==
    /\ passChain("bdd", <<>>, Cardinality(VALID_STEPS))
         = getStepSequence \o <<"done">>
    /\ noRepeat(getStepSequence \o <<"done">>)
    /\ LET chain == passChain(state.step, <<>>, Cardinality(VALID_STEPS))
       IN  /\ chain[Len(chain)] = "done"
           /\ noRepeat(chain)

\* C29 witness: a story has been carried by passes to the last step, whose
\* pass ended it at done
C29_Witness ==
    /\ state.step = "done"
    /\ state.story = "US-001"
    /\ state.task_type = "story"
    /\ result.type = "done"
    /\ result.was = "pass"

\* ---- Properties of the command surface ----

\* C30: every expected outcome of a decide call (dispatched, completed,
\* needs-human, blocked, already-running, timed-out) leaves the dispatch
\* command with exit status 0.
C30_ExpectedOutcomesExitZero ==
    result.type \in ExpectedOutcomes => exitStatus(result.type) = 0

\* ---- Properties of the report parser ----

\* a text whose leading block is there and is not well formed: the opening
\* line is damaged, the closing line is missing, or a line has no key
Malformed(doc) ==
    /\ doc.open # "none"
    /\ \/ doc.open = "damaged"
       \/ ~doc.closed
       \/ \E i \in 1..Len(doc.lines) : doc.lines[i].key = ""

\* C31: applying a report whose leading block is malformed gives what the
\* keyword scan of the whole text gives: failing with the mapped reason when a
\* keyword occurs, pass with no reason when none does.
C31_MalformedFallsBack ==
    [][ \A doc \in Documents :
          (Malformed(doc) /\ ApplyDocument(doc))
          => /\ state'.status =
                  IF doc.markers = {} THEN "pass" ELSE "failing"
             /\ state'.reason = parseFallback(doc).reason ]_vars

\* ---- Properties the pipeline is expected to have ----

\* the steps of a story up to and including the human checkpoint
UpToReview == {"bootstrap", "bdd", "sdd-delta", "contract", "review"}

\* C32: with decide, apply-handoff and start-story alone, and no approve, a
\* story never gets past review.
C32_NoPassWithoutApproval ==
    state.step \in UpToReview

\* C33: decide never returns Dispatched for review, and no state has step
\* review with status running and an executor run in progress.
C33_ReviewNeverDispatched ==
    /\ ~(result.type = "dispatched" /\ result.step = "review")
    /\ ~(state.step = "review" /\ state.status = "running" /\ run_active)

\* C34: apply-handoff on a state that is not running leaves status, reason and
\* the test tallies as they were.
C34_ReportNeedsRunning ==
    [][ (state.status # "running" /\ \E h \in Handoffs : ApplyHandoff(h))
        => /\ state'.status = state.status
           /\ state'.reason = state.reason
           /\ state'.tests = state.tests ]_vars

\* C35: a run that was dispatched at the attempt ceiling and ended by timeout
\* is not followed by another dispatch of the step: the decide call after the
\* TimedOut outcome does not return Dispatched.
C35_CeilingBoundsTimeouts ==
    [][ ( /\ result.type = "timeout"
          /\ state.status = "timeout"
          /\ state.attempt >= state.max_attempts
          /\ Dispatch )
        => result'.type # "dispatched" ]_vars

\* C36: whenever status is running, max_attempts and timeout_min are those of
\* the rule of the current step.
C36_LimitsOfCurrentStep ==
    (state.status = "running" /\ state.step # "done")
    => /\ state.max_attempts = getRule(state.step).max_attempts
       /\ state.timeout_min = getRule(state.step).timeout_min

\* C37: after apply-handoff has returned, status is pass, failing or
\* needs_human.
C37_ReportCompletesRun ==
    result.type = "apply-handoff"
    => state.status \in {"pass", "failing", "needs_human"}

\* ---- Progress ----

\* C38: on the success path every unit that is not yet done (the fresh
\* project at bootstrap, a story started at bdd, a custom task started at
\* custom) eventually reaches step done.
C38_SuccessPathReachesDone ==
    (state.step # "done") ~> (state.step = "done")

\* C38 witness: a story started at bdd has been carried to done through the
\* approved checkpoint
C38_Witness ==
    /\ state.step = "done"
    /\ state.story = "US-001"
    /\ state.task_type = "story"
    /\ state.completed_at # NoTime
    /\ result.type = "done"

\* ---- Properties of the human's note ----

\* C39: the decide call that follows an approval with a note returns
\* Dispatched with a prompt whose human-instruction block is that note.
C39_ApprovalNoteReachesExecutor ==
    [][ ( /\ result = Returned("approve")
          /\ state.human_note # Null
          /\ Dispatch )
        => LET out == _dispatch(state, now, FALSE).out
           IN  /\ out.type = "dispatched"
               /\ out.prompt.human_note = <<state.human_note>> ]_vars

\* ---- Properties of concurrent calls on one project ----

\* C40: when a coordinator call (a decide poll or the verification command)
\* that read the document of a running step finishes after apply-handoff has
\* recorded the run's report, the report's status, reason and test tallies
\* are still in STATE.json.
C40_NoLostUpdate ==
    [][ ( /\ held # <<>>
          /\ held' = <<>>
          /\ held[1].doc.status = "running"
          /\ result.type = "apply-handoff"
          /\ held[1].doc # state )
        => /\ state'.status = state.status
           /\ state'.reason = state.reason
           /\ state'.tests = state.tests ]_vars

=============================================================================
